---- MODULE Spec2Model ----
(***************************************************************************)
(* A model of the tree dumper of src/spy/ast_dump.py (Dumper, a subclass   *)
(* of spy.textbuilder.TextBuilder) and of the game state update of         *)
(* src/raytracing/game.py (update_game).                                   *)
(*                                                                         *)
(* The dumper is a recursive traversal; it is modelled as a machine with   *)
(* an explicit call stack.  A frame is one activation of _dump_node or of  *)
(* dump_list; `cur` is the argument of a pending dump_anything call.       *)
(*                                                                         *)
(* The tree is the input.  The model draws of it what the code reads, at   *)
(* the place where the code reads it: the class of the root in dump(), for *)
(* each field of a node whether its value is complex at line 71 and the    *)
(* xxx_color of the node at line 83, whether the is_var attribute exists   *)
(* at line 70, the class of the value of a field at line 95, the length of *)
(* a list at line 104 and the class of an item at line 109.  `seen` holds  *)
(* the part of the tree read so far.  A node is identified by its path     *)
(* from the root, which is its identity.                                   *)
(***************************************************************************)
EXTENDS Integers, Sequences, FiniteSets, TLC

VARIABLES
    status,       \* position of the dump() call
    call,         \* the arguments of the dump() call
    use_colors,   \* TextBuilder.use_colors
    highlight,    \* Dumper.highlight: the identity of a node, or NoNode
    fields_to_ignore, \* Dumper.fields_to_ignore, a tuple of names
    stack,        \* activations of _dump_node / dump_list, innermost last
    cur,          \* the argument of the pending dump_anything call, or NoValue
    lines,        \* TextBuilder: the accumulated lines, the last one is open
    level,        \* TextBuilder: the indentation level
    colors,       \* TextBuilder: the stack of active color scopes
    seen,         \* the nodes and lists visited so far, by path
    budget,       \* how many more nodes and lists the input tree may have
    state         \* the GameState of the corridor racer

dumper_vars == <<status, call, use_colors, highlight, fields_to_ignore,
                 stack, cur, lines, level, colors, seen, budget>>
vars == <<status, call, use_colors, highlight, fields_to_ignore,
          stack, cur, lines, level, colors, seen, budget, state>>

(***************************************************************************)
(* Bounds of the model.                                                    *)
(***************************************************************************)
\* the input tree has at most MaxNodes nodes and lists
MaxNodes == 3
\* a list has at most MaxLen items
MaxLen == 2

\* the identity of no node of the tree (paths hold positive indices only)
NoNode == <<0>>
None == "None"

(***************************************************************************)
(* The node kinds of the two families.  spy.ast and Python's ast are not   *)
(* part of the dumper; the table lists, for a few kinds, what the dumper   *)
(* reads from them: the class name, the declared field names              *)
(* (__dataclass_fields__ / _fields), whether the class is a spy.ast.Expr   *)
(* and whether it is a py_ast.expr_context.                                *)
(***************************************************************************)
SpyKinds == {"Add"}
PyKinds == {"Name", "Load"}

declared_fields(fam, kind) ==
    IF fam = "spy"
    THEN <<"loc", "left", "xxx_color", "right">>
    ELSE CASE kind = "Name" -> <<"id", "ctx">>
           [] OTHER         -> << >>

is_Expr(fam, kind) == fam = "spy" /\ kind = "Add"
is_expr_context(fam, kind) == fam = "py" /\ kind = "Load"

\* the values of xxx_color of a spy.ast.Expr
Colors == {None, "blue"}

(***************************************************************************)
(* Values.  A value is described by what the type tests of dump_anything   *)
(* and of is_complex see of it: its shape ("spy": a spy.ast.Node, "py": a  *)
(* py_ast.AST, "list", "str", "other") and its class (of a scalar: its     *)
(* repr).                                                                  *)
(***************************************************************************)
Value(shape, kind) == [shape |-> shape, kind |-> kind]

StrValues == {Value("str", "'a'")}
OtherValues == {Value("other", "1")}
BoolValues == {Value("other", "True")}
SpyValues == {Value("spy", k) : k \in SpyKinds}
PyValues == {Value("py", k) : k \in PyKinds}
ListValues == {Value("list", "list")}
Values == StrValues \cup OtherValues \cup SpyValues \cup PyValues \cup ListValues

\* the nodes and lists a field of a spy node or an item of a list may hold
ComplexValues == SpyValues \cup {Value("py", "Name")} \cup ListValues

\* no pending dump_anything call
NoValue == [v |-> Value("absent", "absent"), id |-> NoNode]

IsNodeOrList(v) == v.shape \in {"spy", "py", "list"}

\* what a field of a node, or an item of a list, may hold (a list is
\* fam "list", kind "list")
FieldValues(fam, kind, field) ==
    IF fam = "py" /\ kind = "Name"
    THEN CASE field = "id"  -> StrValues
           [] field = "ctx" -> {Value("py", "Load")}
           [] OTHER         -> BoolValues
    ELSE IF fam = "list"
    THEN StrValues \cup ComplexValues
    ELSE OtherValues \cup ComplexValues

\* how many of the flags are set
RECURSIVE Count(_)
Count(flags) ==
    IF flags = << >> THEN 0
    ELSE (IF Head(flags) THEN 1 ELSE 0) + Count(Tail(flags))

(***************************************************************************)
(* TextBuilder (spy/textbuilder.py is not among the sources; modelled from *)
(* section 4.1 of the specification).  The text is a sequence of lines; a  *)
(* line is its indentation and the fragments written to it.  A text is a   *)
(* sequence of pieces (concatenation is \o, the empty text is << >>).  A   *)
(* fragment records its text, its color, the background active when it     *)
(* was written, and who wrote it (id: the path of the node, list or        *)
(* scalar; role: which write of the dumper).                               *)
(***************************************************************************)
IndentUnit == 4

EmptyLine == [indent |-> 0, started |-> FALSE, toks |-> << >>]

TB == [lines |-> lines, level |-> level, colors |-> colors]

\* the innermost background that is set, None when there is none
RECURSIVE ActiveBg(_)
ActiveBg(cs) ==
    IF cs = << >> THEN None
    ELSE IF cs[Len(cs)] # None THEN cs[Len(cs)]
    ELSE ActiveBg(SubSeq(cs, 1, Len(cs) - 1))

\* write(text, color=color): indentation is inserted only when the line is new
write(tb, s, color, id, role) ==
    LET n == Len(tb.lines)
        l == tb.lines[n]
        tok == [s |-> s, id |-> id, role |-> role,
                color |-> IF use_colors THEN color ELSE None,
                bg |-> IF use_colors THEN ActiveBg(tb.colors) ELSE None]
    IN [tb EXCEPT !.lines[n] =
            [indent |-> IF l.started THEN l.indent ELSE tb.level * IndentUnit,
             started |-> TRUE,
             toks |-> IF s = << >> THEN l.toks ELSE Append(l.toks, tok)]]

\* writeline(text): write(text), then terminate the line
writeline(tb, s, color, id, role) ==
    LET tb1 == write(tb, s, color, id, role)
    IN [tb1 EXCEPT !.lines = Append(tb1.lines, EmptyLine)]

\* with self.indent(): entry and exit
indent_enter(tb) == [tb EXCEPT !.level = tb.level + 1]
indent_exit(tb) == [tb EXCEPT !.level = tb.level - 1]

\* with self.color(bg=bg): entry and exit
color_enter(tb, bg) == [tb EXCEPT !.colors = Append(tb.colors, bg)]
color_exit(tb) == [tb EXCEPT !.colors = SubSeq(tb.colors, 1, Len(tb.colors) - 1)]

SetTB(tb) ==
    /\ lines' = tb.lines
    /\ level' = tb.level
    /\ colors' = tb.colors

(***************************************************************************)
(* The dumper.                                                             *)
(***************************************************************************)
DefaultFieldsToIgnore == <<"loc", "target_loc", "target_locs", "loc_asname", "xxx_color">>

\* the calls of dump() tried: a call that highlights the first child of the
\* root; an uncolored call that colorizes, with a tuple of names to ignore;
\* a call with a list of names to ignore
Call(uc, names_type, names, hl, cz) ==
    [use_colors |-> uc, type |-> names_type, names |-> names, hl |-> hl, colorize |-> cz]
Calls ==
    { Call(TRUE, "tuple", << >>, <<1>>, FALSE),
      Call(FALSE, "tuple", <<"left", "is_var">>, NoNode, TRUE),
      Call(TRUE, "list", <<"left">>, NoNode, FALSE) }

Top == stack[Len(stack)]
Pop == SubSeq(stack, 1, Len(stack) - 1)

\* a bug: the names the caller passed are not looked at
filter_fields_defaults(fields, ignore) ==
    SelectSeq(fields, LAMBDA f : \A k \in 1..Len(DefaultFieldsToIgnore) :
                                     DefaultFieldsToIgnore[k] # f)

\* [f for f in fields if f not in self.fields_to_ignore]
filter_fields(fields, ignore) ==
    SelectSeq(fields, LAMBDA f : \A k \in 1..Len(ignore) : ignore[k] # f)

\* a bug: the expression contexts are not excepted
is_complex_any_node(v) == v.shape \in {"spy", "py", "list"}

\* is_complex of _dump_node
is_complex(v) ==
    /\ v.shape \in {"spy", "py", "list"}
    /\ ~ (v.shape = "py" /\ is_expr_context("py", v.kind))

\* is_complex_field of _dump_node: [is_complex(value) for value in values],
\* for the values the fields of a node may hold, within the budget
IsComplexField(fam, kind, fields) ==
    { flags \in [1..Len(fields) -> BOOLEAN] :
        /\ \A i \in 1..Len(fields) :
             \E v \in FieldValues(fam, kind, fields[i]) : is_complex(v) = flags[i]
        /\ Count(flags) <= budget }

\* a dump_anything call returns to its caller: to the loop of the activation
\* below it, or to dump()
Return(stk) ==
    IF stk = << >>
    THEN /\ stack' = stk
         /\ status' = "dumped"
    ELSE /\ stack' = [stk EXCEPT ![Len(stk)].ret = TRUE]
         /\ status' = status

\* dump(): the Dumper is constructed and the caller's names are appended
\* to its fields_to_ignore; tuple += list raises TypeError
dump ==
    /\ status = "idle"
    /\ \E root \in Values, arg \in Calls :
        /\ call' = arg
        /\ use_colors' = arg.use_colors
        /\ highlight' = arg.hl
        /\ budget' = MaxNodes - (IF IsNodeOrList(root) THEN 1 ELSE 0)
        /\ IF arg.type = "tuple"
           THEN /\ fields_to_ignore' = DefaultFieldsToIgnore \o arg.names
                /\ cur' = [v |-> root, id |-> << >>]
                /\ status' = "running"
           ELSE /\ fields_to_ignore' = DefaultFieldsToIgnore
                /\ cur' = NoValue
                /\ status' = "raised"
    /\ UNCHANGED <<stack, lines, level, colors, seen, state>>

Frame(fn, v, id, fields, flags, multiline, n) ==
    [fn |-> fn, v |-> v, id |-> id, fields |-> fields, is_complex_field |-> flags,
     multiline |-> multiline, n |-> n, i |-> 1, ret |-> FALSE]

\* the record of a node or list in `seen`: its class, its xxx_color, the
\* background its color scope was opened with, the number of its items (of
\* a list, known when its loop ends) and whether its dump has returned
Visit(id, v, xxx_color, bg) ==
    [p \in DOMAIN seen \cup {id} |->
        IF p = id
        THEN [v |-> v, xxx_color |-> xxx_color, bg |-> bg, n |-> 0, done |-> FALSE]
        ELSE seen[p]]

\* lines 86-91 of _dump_node: the color scope is entered, the name and '('
\* are written, the line is ended when the node is multiline, the indent
\* scope is entered.  The color argument of self.write(name) is commented
\* out: the name is written with no color.
node_open(tb, id, name, multiline, bg) ==
    LET tb1 == color_enter(tb, bg)
        tb2 == write(tb1, name, None, id, "name")
        tb3 == write(tb2, <<"(">>, None, id, "open")
        tb4 == IF multiline THEN writeline(tb3, << >>, None, id, "open") ELSE tb3
    IN indent_enter(tb4)

\* lines 96-100 of _dump_node: what follows the dump of a field
node_sep(tb, id, multiline, is_last) ==
    IF multiline THEN writeline(tb, <<",">>, None, id, "comma")
    ELSE IF ~ is_last THEN write(tb, <<", ">>, None, id, "sep")
    ELSE tb

\* a bug: ')' is written inside the indent scope
node_end_indented(tb, id) ==
    color_exit(indent_exit(write(tb, <<")">>, None, id, "close")))

\* line 101 of _dump_node, with the ends of the two with statements around
\* it: the indent scope is left, ')' is written, the color scope is left
node_end(tb, id) == color_exit(write(indent_exit(tb), <<")">>, None, id, "close"))

\* lines 104-108 of dump_list
list_empty(tb, id) == write(tb, <<"[]">>, None, id, "empty")
\* a bug: the items are not written inside an indent scope
list_open_flat(tb, id) == writeline(tb, <<"[">>, None, id, "open")
list_open(tb, id) == indent_enter(writeline(tb, <<"[">>, None, id, "open"))
\* line 111 of dump_list
list_sep(tb, id) == writeline(tb, <<",">>, None, id, "comma")
\* line 112 of dump_list, with the end of the with statement before it
list_end(tb, id) == write(indent_exit(tb), <<"]">>, None, id, "close")

\* lines 82-84 of _dump_node: the background of the color scope of a node
node_bg(node, xxx_color) ==
    IF is_Expr(node.shape, node.kind) /\ xxx_color # None THEN xxx_color ELSE None

\* _dump_node, from its entry to the start of the loop over the fields.
\* getattr raises AttributeError for a field the node does not have: the
\* is_var of a py Name that was not given one.
_dump_node(node, id, name, fields, color) ==
    \E has_is_var \in BOOLEAN :
    IF \E i \in 1..Len(fields) : fields[i] = "is_var" /\ ~ has_is_var
    THEN /\ status' = "raising"
         /\ cur' = NoValue
         /\ UNCHANGED <<stack, lines, level, colors, seen, budget>>
    ELSE \E is_complex_field \in IsComplexField(node.shape, node.kind, fields),
            xxx_color \in Colors :
        LET multiline == \E i \in 1..Len(fields) : is_complex_field[i]
            \* computed, and used by no write (see node_open)
            name_color == IF id = highlight THEN "red" ELSE color
            bg == node_bg(node, xxx_color)
        IN /\ has_is_var
           /\ is_Expr(node.shape, node.kind) \/ xxx_color = None
           /\ SetTB(node_open(TB, id, name, multiline, bg))
           /\ stack' = Append(stack, Frame("_dump_node", node, id, fields,
                                           is_complex_field, multiline, Len(fields)))
           /\ seen' = Visit(id, node, xxx_color, bg)
           /\ budget' = budget - Count(is_complex_field)
           /\ cur' = NoValue
           /\ status' = status

\* dump_anything, obj a spy.ast.Node: dump_spy_node
dump_spy_node ==
    /\ status = "running" /\ cur # NoValue
    /\ cur.v.shape = "spy"
    /\ _dump_node(cur.v, cur.id, <<cur.v.kind>>,
                  filter_fields(declared_fields("spy", cur.v.kind), fields_to_ignore),
                  "turquoise")
    /\ UNCHANGED <<call, use_colors, highlight, fields_to_ignore, state>>

\* a bug: every py node gets the synthetic is_var
py_fields_all(kind, ignore) ==
    Append(SelectSeq(declared_fields("py", kind),
                     LAMBDA f : \A k \in 1..Len(ignore) : ignore[k] # f), "is_var")

\* the fields of a py node: a Name gets the synthetic is_var
py_fields(kind, ignore) ==
    LET fields == filter_fields(declared_fields("py", kind), ignore)
    IN IF kind = "Name" THEN Append(fields, "is_var") ELSE fields

\* dump_anything, obj a py_ast.AST: dump_py_node
dump_py_node ==
    /\ status = "running" /\ cur # NoValue
    /\ cur.v.shape = "py"
    /\ _dump_node(cur.v, cur.id, <<"py:">> \o <<cur.v.kind>>,
                  py_fields(cur.v.kind, fields_to_ignore), "turquoise")
    /\ UNCHANGED <<call, use_colors, highlight, fields_to_ignore, state>>

\* dump_anything, obj a list: dump_list, to the start of its loop
dump_list ==
    /\ status = "running" /\ cur # NoValue
    /\ cur.v.shape = "list"
    /\ \E empty \in BOOLEAN :
       /\ IF empty
          THEN /\ SetTB(list_empty(TB, cur.id))
               /\ Return(stack)
          ELSE /\ SetTB(list_open(TB, cur.id))
               /\ stack' = Append(stack, Frame("dump_list", cur.v, cur.id,
                                               << >>, << >>, TRUE, 1))
               /\ status' = status
       /\ seen' = [Visit(cur.id, cur.v, None, None) EXCEPT ![cur.id].done = empty]
    /\ cur' = NoValue
    /\ UNCHANGED <<call, use_colors, highlight, fields_to_ignore, budget, state>>

\* dump_anything, obj a str: its repr, in green
dump_str ==
    /\ status = "running" /\ cur # NoValue
    /\ cur.v.shape = "str"
    /\ SetTB(write(TB, <<cur.v.kind>>, "green", cur.id, "scalar"))
    /\ Return(stack)
    /\ cur' = NoValue
    /\ UNCHANGED <<call, use_colors, highlight, fields_to_ignore, seen, budget, state>>

\* dump_anything, obj anything else: its repr
dump_other ==
    /\ status = "running" /\ cur # NoValue
    /\ cur.v.shape \notin {"spy", "py", "list", "str"}
    /\ SetTB(write(TB, <<cur.v.kind>>, None, cur.id, "scalar"))
    /\ Return(stack)
    /\ cur' = NoValue
    /\ UNCHANGED <<call, use_colors, highlight, fields_to_ignore, seen, budget, state>>

dump_anything == dump_spy_node \/ dump_py_node \/ dump_list \/ dump_str \/ dump_other

InLoop(fn) ==
    /\ status = "running" /\ cur = NoValue
    /\ stack # << >>
    /\ Top.fn = fn

\* the loop of _dump_node: the name of the next field, and the dump of its value
node_field ==
    /\ InLoop("_dump_node") /\ ~ Top.ret /\ Top.i <= Top.n
    /\ SetTB(write(TB, <<Top.fields[Top.i], "=">>, None, Top.id, "field"))
    /\ \E value \in FieldValues(Top.v.shape, Top.v.kind, Top.fields[Top.i]) :
        /\ is_complex(value) = Top.is_complex_field[Top.i]
        /\ cur' = [v |-> value, id |-> Append(Top.id, Top.i)]
    /\ UNCHANGED <<status, call, use_colors, highlight, fields_to_ignore,
                   stack, seen, budget, state>>

\* the loop of _dump_node, after the dump of a value: the separator
node_separator ==
    /\ InLoop("_dump_node") /\ Top.ret
    /\ LET field == Top.fields[Top.i]
           is_last == (field = Top.fields[Len(Top.fields)])
       IN SetTB(node_sep(TB, Top.id, Top.multiline, is_last))
    /\ stack' = [stack EXCEPT ![Len(stack)].i = Top.i + 1, ![Len(stack)].ret = FALSE]
    /\ UNCHANGED <<status, call, use_colors, highlight, fields_to_ignore,
                   cur, seen, budget, state>>

\* the end of _dump_node: the indent scope is left, ')' is written, the
\* color scope is left
node_close ==
    /\ InLoop("_dump_node") /\ ~ Top.ret /\ Top.i > Top.n
    /\ SetTB(node_end(TB, Top.id))
    /\ Return(Pop)
    /\ seen' = [seen EXCEPT ![Top.id].done = TRUE]
    /\ UNCHANGED <<call, use_colors, highlight, fields_to_ignore, cur, budget, state>>

\* the loop of dump_list: the list has a next item, which is dumped
list_item ==
    /\ InLoop("dump_list") /\ ~ Top.ret /\ Top.i <= MaxLen
    /\ \E item \in FieldValues("list", "list", "item") :
        /\ IsNodeOrList(item) => budget > 0
        /\ budget' = budget - (IF IsNodeOrList(item) THEN 1 ELSE 0)
        /\ cur' = [v |-> item, id |-> Append(Top.id, Top.i)]
    /\ UNCHANGED <<status, call, use_colors, highlight, fields_to_ignore,
                   stack, lines, level, colors, seen, state>>

\* the loop of dump_list, after the dump of an item
list_comma ==
    /\ InLoop("dump_list") /\ Top.ret
    /\ SetTB(list_sep(TB, Top.id))
    /\ stack' = [stack EXCEPT ![Len(stack)].i = Top.i + 1, ![Len(stack)].ret = FALSE]
    /\ UNCHANGED <<status, call, use_colors, highlight, fields_to_ignore,
                   cur, seen, budget, state>>

\* the end of dump_list: the list, which is not empty, has no next item
list_close ==
    /\ InLoop("dump_list") /\ ~ Top.ret /\ Top.i > 1
    /\ SetTB(list_end(TB, Top.id))
    /\ Return(Pop)
    /\ seen' = [seen EXCEPT ![Top.id].done = TRUE, ![Top.id].n = Top.i - 1]
    /\ UNCHANGED <<call, use_colors, highlight, fields_to_ignore, cur, budget, state>>

\* a bug: the scopes are entered and left by hand, not by with statements
release_nothing(tb, fn) == tb

\* what the with statements of an activation do when an exception leaves them
release(tb, fn) ==
    IF fn = "_dump_node" THEN color_exit(indent_exit(tb)) ELSE indent_exit(tb)

\* an exception propagates out of the innermost activation, or out of dump()
propagate ==
    /\ status = "raising"
    /\ IF stack = << >>
       THEN /\ status' = "raised"
            /\ UNCHANGED <<stack, lines, level, colors>>
       ELSE /\ SetTB(release(TB, Top.fn))
            /\ stack' = Pop
            /\ status' = status
    /\ UNCHANGED <<call, use_colors, highlight, fields_to_ignore, cur, seen, budget, state>>

\* return dumper.build()
build ==
    /\ status = "dumped"
    /\ status' = "returned"
    /\ UNCHANGED <<call, use_colors, highlight, fields_to_ignore, stack, cur,
                   lines, level, colors, seen, budget, state>>

(***************************************************************************)
(* The corridor racer: GameState and update_game.  Lengths, speeds and     *)
(* times are fixed-point numbers, in units of 1/Scale; the time steps      *)
(* tried keep every product of the code exact at that resolution.          *)
(***************************************************************************)
\* a list of objects has at most MaxObjects objects (a spawn is skipped
\* when the list is full)
MaxObjects == 1
\* update_game is called until the speed has grown by MaxSpeedup units
MaxSpeedup == 2

Scale == 2 * 4

\* the values of dt tried: 0, 1/2 and 1 second
DTs == {0, Scale \div 2, Scale}
\* what read_input returns to game_loop, but for "quit", which ends the loop
PlayerInputs == {"left", "right", None}
\* the values of random.uniform(-2, 2) tried
SpawnXs == {0, 2 * Scale}
ObjectTypes == {"coin", "obstacle"}

Max(a, b) == IF a >= b THEN a ELSE b
Min(a, b) == IF a <= b THEN a ELSE b

GameObject(x, z, type) == [x |-> x, z |-> z, type |-> type]

\* GameState(): the defaults of the dataclass
GameState ==
    [player_x |-> 0, speed |-> 5 * Scale, score |-> 0, game_over |-> FALSE,
     objects |-> << >>]

\* the loop of update_game over state.objects, from index k on.  objs is
\* state.objects, whose objects are moved in place; new is new_objects.
\* The result is what the loop leaves: state.objects (replaced by
\* new_objects when the loop ends, kept when the function returns from
\* inside it), the score and game_over.
RECURSIVE move_objects(_, _, _, _, _, _)
move_objects(objs, k, new, score, player_x, dz) ==
    IF k > Len(objs)
    THEN [objects |-> new, score |-> score, game_over |-> FALSE]
    ELSE LET z == objs[k].z + dz
             moved == [objs EXCEPT ![k].z = z]
             dx == objs[k].x - player_x
             \* sqrt(dx ** 2 + z ** 2) < 0.5
             collision == z * 2 > - Scale /\ 4 * (dx * dx + z * z) < Scale * Scale
         IN IF collision /\ objs[k].type = "coin"
            THEN move_objects(moved, k + 1, new, score + 10, player_x, dz)
            ELSE IF collision /\ objs[k].type = "obstacle"
            THEN [objects |-> moved, score |-> score, game_over |-> TRUE]
            ELSE move_objects(moved, k + 1,
                              IF z < 20 * Scale THEN Append(new, moved[k]) ELSE new,
                              score, player_x, dz)

\* lines 174-206 of update_game, with the two draws of spawn_objects:
\* whether something is spawned, and what
update_running(s, dt, player_input, spawn, x_pos, obj_type) ==
         LET player_x ==
                 IF player_input = "left"
                 THEN Max(- (5 * Scale) \div 2, s.player_x - 5 * dt)
                 ELSE IF player_input = "right"
                 THEN Min((5 * Scale) \div 2, s.player_x + 5 * dt)
                 ELSE s.player_x
             after == move_objects(s.objects, 1, << >>, s.score, player_x,
                                   (s.speed * dt) \div Scale)
         IN IF after.game_over
            THEN [s EXCEPT !.player_x = player_x, !.objects = after.objects,
                           !.score = after.score, !.game_over = TRUE]
            ELSE [s EXCEPT !.player_x = player_x,
                           !.objects = IF spawn
                                       THEN Append(after.objects,
                                                   GameObject(x_pos, - 20 * Scale, obj_type))
                                       ELSE after.objects,
                           !.score = after.score,
                           !.speed = s.speed + dt \div 2]

\* a bug: the game goes on after it is over
update_game_goes_on(s, dt, player_input, spawn, x_pos, obj_type) ==
    update_running(s, dt, player_input, spawn, x_pos, obj_type)

\* update_game(state, dt, player_input): nothing is done once the game is over
update_game(s, dt, player_input, spawn, x_pos, obj_type) ==
    IF s.game_over THEN s
    ELSE update_running(s, dt, player_input, spawn, x_pos, obj_type)

\* the outcomes of the draws of spawn_objects
Spawns ==
    {[spawn |-> FALSE, x_pos |-> 0, obj_type |-> "coin"]}
        \cup [spawn : {TRUE}, x_pos : SpawnXs, obj_type : ObjectTypes]

\* one iteration of game_loop calls update_game
UpdateGame ==
    /\ \E dt \in DTs, player_input \in PlayerInputs, r \in Spawns :
        /\ state.speed + dt \div 2 <= (5 + MaxSpeedup) * Scale
        /\ r.spawn => Len(state.objects) < MaxObjects
        /\ state' = update_game(state, dt, player_input, r.spawn, r.x_pos, r.obj_type)
    /\ UNCHANGED dumper_vars

EmptySeen == [p \in {} |-> 0]

InitDumper ==
    /\ status = "idle"
    /\ call = Call(TRUE, "tuple", << >>, NoNode, FALSE)
    /\ use_colors = TRUE
    /\ highlight = NoNode
    /\ fields_to_ignore = DefaultFieldsToIgnore
    /\ stack = << >>
    /\ cur = NoValue
    /\ lines = <<EmptyLine>>
    /\ level = 0
    /\ colors = << >>
    /\ seen = EmptySeen
    /\ budget = MaxNodes

InitGame == state = GameState

Init == InitDumper /\ InitGame

Next ==
    \/ dump
    \/ dump_anything
    \/ node_field \/ node_separator \/ node_close
    \/ list_item \/ list_comma \/ list_close
    \/ propagate
    \/ build

Spec == Init /\ [][Next]_vars

NextGame == UpdateGame

SpecGame == Init /\ [][NextGame]_vars

(***************************************************************************)
(* The rendered text, as the claims read it.                               *)
(***************************************************************************)
\* the positions of the fragments of the text: <<line, index in the line>>
Positions ==
    UNION { { <<l, k>> : k \in 1..Len(lines[l].toks) } : l \in 1..Len(lines) }
Tok(p) == lines[p[1]].toks[p[2]]
Before(p, q) == p[1] < q[1] \/ (p[1] = q[1] /\ p[2] < q[2])
StartsLine(p) == p[2] = 1
EndsLine(p) == p[2] = Len(lines[p[1]].toks) /\ p[1] < Len(lines)
IndentOf(p) == lines[p[1]].indent

IsPrefix(a, b) == Len(a) <= Len(b) /\ SubSeq(b, 1, Len(a)) = a
\* the fragments a node or list wrote itself, by role; those of its region
Own(id, role) == { p \in Positions : Tok(p).id = id /\ Tok(p).role = role }
OwnAll(id) == { p \in Positions : Tok(p).id = id }
Region(id) == { p \in Positions : IsPrefix(id, Tok(p).id) }

\* the nodes (of either family) and the lists visited so far
Nodes == { id \in DOMAIN seen : seen[id].v.shape \in {"spy", "py"} }
Lists == { id \in DOMAIN seen : seen[id].v.shape = "list" }
IsPy(id) == seen[id].v.shape = "py"

\* C1: with colors enabled, the kind name of the highlighted node is
\* written in red and the kind name of every other node in turquoise.
C1_HighlightWins ==
    use_colors =>
        \A id \in Nodes : \A p \in Own(id, "name") :
            Tok(p).color = IF id = highlight THEN "red" ELSE "turquoise"

\* C6: a node's color scope is opened with a background if and only if
\* colorize is enabled and the node carries an xxx_color.
C6_BackgroundIffColorize ==
    \A id \in Nodes :
        seen[id].bg # None <=> (call.colorize /\ seen[id].xxx_color # None)

\* C7: dump never raises.
C7_NeverRaises == status \notin {"raising", "raised"}

\* the activations of _dump_node on the stack
NodeFrames == SelectSeq(stack, LAMBDA f : f.fn = "_dump_node")

\* C8: every activation holds exactly one indent scope and every activation
\* of _dump_node exactly one color scope, innermost last, while the dump
\* runs and while an exception propagates; when dump_anything on the root
\* has returned or raised, the indentation level and the color stack are
\* what they were before the call.
C8_ScopesBalanced ==
    /\ level = Len(stack)
    /\ colors = [k \in 1..Len(NodeFrames) |-> seen[NodeFrames[k].id].bg]
    /\ status \in {"dumped", "returned", "raised"} => level = 0 /\ colors = << >>

\* an exception has propagated out of dump() through an open scope
C8_Witness ==
    /\ status = "raised"
    /\ \E id \in Nodes : ~ seen[id].done
    /\ \E id \in Lists : ~ seen[id].done

\* the fragments `set` in the order of the text
Rank(p, set) == Cardinality({ q \in set : Before(q, p) }) + 1
InOrder(set) == [k \in 1..Cardinality(set) |-> CHOOSE p \in set : Rank(p, set) = k]
\* the names of the fields a node rendered, in the order of the text
FieldNames(id) ==
    LET ps == InOrder(Own(id, "field")) IN [k \in 1..Len(ps) |-> Tok(ps[k]).s[1]]
IsName(id) == seen[id].v = Value("py", "Name")

\* C9: in the text dump returns, a py node is rendered with its class name
\* after 'py:', a spy node with its bare class name; is_var is rendered
\* for a py Name only, once, after its other fields.
C9_PrefixAndIsVar ==
    status = "returned" =>
        \A id \in Nodes :
            LET is_var == { p \in Own(id, "field") : Tok(p).s = <<"is_var", "=">> }
            IN /\ Cardinality(Own(id, "name")) = 1
               /\ \A p \in Own(id, "name") :
                    Tok(p).s = IF IsPy(id) THEN <<"py:", seen[id].v.kind>>
                               ELSE <<seen[id].v.kind>>
               /\ Cardinality(is_var) = IF IsName(id) THEN 1 ELSE 0
               /\ \A p \in is_var : \A q \in Own(id, "field") : q = p \/ Before(q, p)

\* a py Name, another py node and a spy node have been rendered
C9_Witness ==
    /\ status = "returned"
    /\ \E id \in Nodes : IsName(id) /\ Len(FieldNames(id)) > 1
    /\ \E id \in Nodes : seen[id].v = Value("py", "Load")
    /\ \E id \in Nodes : ~ IsPy(id)

\* the exclusion set of the call: the default names and the names passed
ExclusionSet ==
    { DefaultFieldsToIgnore[k] : k \in 1..Len(DefaultFieldsToIgnore) }
        \cup { call.names[k] : k \in 1..Len(call.names) }
\* the declared fields of a node that are not excluded, in declared order
Remaining(id) ==
    SelectSeq(declared_fields(seen[id].v.shape, seen[id].v.kind),
              LAMBDA f : f \notin ExclusionSet)

\* C4, as claimed: in the text dump returns, no field whose name is in the
\* exclusion set is rendered for any node, and a node renders exactly its
\* remaining declared fields, in declared order.
C4_ExclusionExact ==
    status = "returned" =>
        \A id \in Nodes :
            /\ \A p \in Own(id, "field") : Tok(p).s[1] \notin ExclusionSet
            /\ FieldNames(id) = Remaining(id)

\* C4, amended: in the text dump returns, no declared field whose name is
\* in the exclusion set is rendered for any node, and a node renders
\* exactly its remaining declared fields, in declared order, followed, for
\* a py Name, by the synthetic is_var, which is rendered whether or not its
\* name is in the exclusion set.
C4_ExclusionExactButIsVar ==
    status = "returned" =>
        \A id \in Nodes :
            /\ \A p \in Own(id, "field") :
                 Tok(p).s[1] \in ExclusionSet => IsName(id) /\ Tok(p).s[1] = "is_var"
            /\ FieldNames(id) = Remaining(id) \o
                                (IF IsName(id) THEN <<"is_var">> ELSE << >>)

\* a call that passes names to ignore has rendered a spy node that declares
\* one of them, and a py Name
C4_Witness ==
    /\ status = "returned"
    /\ call.names # << >>
    /\ \E id \in Nodes : ~ IsPy(id) /\ Len(Remaining(id)) = 1
    /\ \E id \in Nodes : IsName(id)

\* the values of the fields of a node, or the items of a list, that are
\* nodes or lists
Children(id) == { c \in DOMAIN seen : Len(c) = Len(id) + 1 /\ IsPrefix(id, c) }
\* a rendered field of the node holds a spy node, a py node that is no
\* expression context, or a list
HasComplexField(id) == \E c \in Children(id) : seen[c].v # Value("py", "Load")
\* the line is ended after the '(' of the node
RenderedMultiline(id) == \E p \in Own(id, "open") : EndsLine(p)

\* what an inline node writes itself, for the names of its fields
RECURSIVE InlineTexts(_)
InlineTexts(names) ==
    IF names = << >> THEN << <<")">> >>
    ELSE << <<Head(names), "=">> >> \o
         (IF Len(names) > 1 THEN << <<", ">> >> ELSE << >>) \o
         InlineTexts(Tail(names))

\* the node is rendered on one line as Kind(f1=v1, f2=v2): its region is
\* one run of fragments of one line; what it wrote itself is the name, '(',
\* each 'f=', ', ' between two fields and ')' ; a value, and nothing else,
\* stands after each 'f='
RenderedInline(id) ==
    LET own == InOrder(OwnAll(id))
        region == Region(id)
        names == FieldNames(id)
    IN /\ \A p \in region, q \in region : p[1] = q[1]
       /\ \A p \in region, q \in region :
            \A k \in p[2]..q[2] : <<p[1], k>> \in region
       /\ [k \in 1..Len(own) |-> Tok(own[k]).s]
            = << Tok(own[1]).s, <<"(">> >> \o InlineTexts(names)
       /\ Tok(own[1]).role = "name"
       /\ \A k \in 1..(Len(own) - 1) :
            IF Tok(own[k]).role = "field"
            THEN /\ own[k + 1][2] > own[k][2] + 1
                 /\ \A j \in (own[k][2] + 1)..(own[k + 1][2] - 1) :
                      IsPrefix(Append(id, Rank(own[k], Own(id, "field"))),
                               Tok(<<own[k][1], j>>).id)
            ELSE own[k + 1][2] = own[k][2] + 1

\* C2: in the text dump returns, a node is rendered multiline if and only
\* if one of its rendered fields holds a complex value; otherwise it is
\* rendered on one line, its fields separated by ', ', with no comma after
\* the last field and no line break before ')'.
C2_MultilineIffComplex ==
    status = "returned" =>
        \A id \in Nodes :
            IF HasComplexField(id)
            THEN RenderedMultiline(id)
            ELSE ~ RenderedMultiline(id) /\ RenderedInline(id)

\* a node with two scalar fields, a py Name with its expression context, a
\* node with no field and a multiline node have been rendered
C2_Witness ==
    /\ status = "returned"
    /\ \E id \in Nodes : ~ IsPy(id) /\ ~ HasComplexField(id) /\ Len(FieldNames(id)) = 2
    /\ \E id \in Nodes : IsName(id) /\ Children(id) # {}
    /\ \E id \in Nodes : HasComplexField(id)

\* the roles of what a node or list wrote itself, in the order of the text
OwnRoles(id) ==
    LET own == InOrder(OwnAll(id)) IN [k \in 1..Len(own) |-> Tok(own[k]).role]
\* what a multiline node, or a list that is not empty, writes itself around
\* its n fields or items
RECURSIVE MultilineRoles(_, _)
MultilineRoles(n, is_node) ==
    IF n = 0 THEN <<"close">>
    ELSE (IF is_node THEN <<"field", "comma">> ELSE <<"comma">>)
            \o MultilineRoles(n - 1, is_node)
\* the line after the line of the last comma
AfterLastComma(id, p) ==
    \A g \in Own(id, "comma") : p[1] > g[1] /\ (p[1] = g[1] + 1 \/ \E h \in Own(id, "comma") : Before(g, h))

\* the text, line by line
LineTexts ==
    [l \in 1..Len(lines) |->
        [indent |-> lines[l].indent,
         text |-> [k \in 1..Len(lines[l].toks) |-> lines[l].toks[k].s]]]

\* the dump of Add(left=1, right=Add(left=1, right=1)) has returned
IsAddExample ==
    /\ status = "returned"
    /\ call.names = << >>
    /\ DOMAIN seen = {<< >>, <<2>>}
    /\ seen[<< >>].v = Value("spy", "Add")
    /\ seen[<<2>>].v = Value("spy", "Add")

AddExampleText ==
    << [indent |-> 0, text |-> << <<"Add">>, <<"(">> >>],
       [indent |-> IndentUnit, text |-> << <<"left", "=">>, <<"1">>, <<",">> >>],
       [indent |-> IndentUnit,
        text |-> << <<"right", "=">>, <<"Add">>, <<"(">>, <<"left", "=">>, <<"1">>,
                    <<", ">>, <<"right", "=">>, <<"1">>, <<")">>, <<",">> >>],
       [indent |-> 0, text |-> << <<")">> >>] >>

\* C3: in the text dump returns, of a multiline node, at any depth,
\* 'Kind(' ends its line, every field starts a line indented one unit
\* deeper than the line on which the node opens, every field ends with a
\* comma that ends its line, and ')' starts the next line, indented as the
\* line on which the node opens; Add(left=1, right=Add(left=1, right=1)) is
\* rendered as the four lines of the specification.
C3_MultilineLayout ==
    status = "returned" =>
        /\ \A id \in Nodes : \A o \in Own(id, "open") :
            EndsLine(o) =>
                /\ \A p \in Own(id, "name") : p = <<o[1], o[2] - 1>>
                /\ \A p \in Own(id, "field") :
                     StartsLine(p) /\ IndentOf(p) = IndentOf(o) + IndentUnit
                /\ \A p \in Own(id, "comma") : EndsLine(p)
                /\ \A p \in Own(id, "close") :
                     /\ StartsLine(p) /\ IndentOf(p) = IndentOf(o)
                     /\ AfterLastComma(id, p)
                /\ OwnRoles(id) = <<"name", "open">>
                                    \o MultilineRoles(Len(FieldNames(id)), TRUE)
        /\ IsAddExample => LineTexts = AddExampleText

\* a multiline node nested in a multiline node or in a list has been rendered
C3_Witness ==
    /\ status = "returned"
    /\ \E id \in Nodes : id # << >> /\ RenderedMultiline(id) /\ Len(FieldNames(id)) = 2

\* the items of a list: the regions of the values at its indices
Item(id, i) == Region(Append(id, i))

\* C5: in the text dump returns, an empty list is rendered as '[]' with no
\* line break; of a list that is not empty, '[' ends its line, every item
\* starts a line indented one unit deeper than the line of '[', the items
\* stand in order, each followed by a comma that ends its line, and ']'
\* starts the next line, indented as the line of '['.
C5_ListLayout ==
    status = "returned" =>
        \A id \in Lists :
            LET commas == InOrder(Own(id, "comma")) IN
            /\ \A p \in Own(id, "empty") :
                 /\ Tok(p).s = <<"[]">> /\ ~ EndsLine(p)
                 /\ Region(id) = {p}
                 /\ seen[id].n = 0
            /\ Cardinality(Own(id, "empty")) + Cardinality(Own(id, "open")) = 1
            /\ \A o \in Own(id, "open") :
                 /\ Tok(o).s = <<"[">> /\ EndsLine(o)
                 /\ seen[id].n >= 1
                 /\ OwnRoles(id) = <<"open">> \o MultilineRoles(seen[id].n, FALSE)
                 /\ \A i \in 1..MaxLen :
                      LET item == Item(id, i) IN
                      IF i > seen[id].n THEN item = {}
                      ELSE /\ \E q \in item :
                                /\ StartsLine(q)
                                /\ IndentOf(q) = IndentOf(o) + IndentUnit
                                /\ q[1] = (IF i = 1 THEN o[1] ELSE commas[i - 1][1]) + 1
                           /\ \A p \in item :
                                /\ IndentOf(p) >= IndentOf(o) + IndentUnit
                                /\ Before(IF i = 1 THEN o ELSE commas[i - 1], p)
                                /\ Before(p, commas[i])
                 /\ \A p \in Own(id, "comma") : Tok(p).s = <<",">> /\ EndsLine(p)
                 /\ \A p \in Own(id, "close") :
                      /\ Tok(p).s = <<"]">>
                      /\ StartsLine(p) /\ IndentOf(p) = IndentOf(o)
                      /\ AfterLastComma(id, p)

\* an empty list, and a list of two items inside a node, have been rendered
C5_Witness ==
    /\ status = "returned"
    /\ \E id \in Lists : Own(id, "empty") # {} /\ id # << >>
    /\ \E id \in Lists : id # << >> /\ seen[id].n >= 2

\* the coins among the objects of a state
Coins(s) == { k \in 1..Len(s.objects) : s.objects[k].type = "coin" }

\* C10: once game_over is true, a call of update_game changes nothing of
\* the state (player_x, speed, score, objects, game_over), whatever dt and
\* the input of the player; and a call of update_game never lowers the
\* score, which it changes by 10 for each coin collected only.
C10_GameOverAbsorbing ==
    [][ /\ state.game_over => state' = state
        /\ \E n \in 0..Cardinality(Coins(state)) :
             state'.score = state.score + 10 * n ]_vars

\* the game is over, with the obstacle that was hit still among the objects
C10_Witness ==
    /\ state.game_over
    /\ \E k \in 1..Len(state.objects) : state.objects[k].type = "obstacle"

====
